---- MODULE Spec2Model ----
(***************************************************************************)
(* A model of sxapi/low.py: the BaseAPI client (session / token lifecycle, *)
(* request dispatch, request history).  Time is counted in whole seconds.  *)
(* Python's None is the string "None"; a URL is the sequence of the pieces *)
(* between its slashes.                                                    *)
(***************************************************************************)
EXTENDS Integers, Sequences, FiniteSets, TLC

None == "None"

(* ------------------------------ bounds -------------------------------- *)
\* operations one behaviour of Spec starts
MaxOps == 2
\* clock advances one behaviour takes
MaxTicks == 1
\* operations one behaviour of SpecDispatch starts
DispatchOps == 1
\* operations one behaviour of SpecHist starts
HistOps == 150
\* plain calls and queries one behaviour of SpecPage starts, and pages one
\* query fetches
PlainOps == 1
MaxQueries == 1
MaxFetches == 4
\* entries of one parameter dict
MaxParams == 3

(* ------------------------- program constants -------------------------- *)
\* low.py:73  if len(self.requests) > 100
HistoryCap == 100
\* low.py:120  time.time() + 23 * 60 * 60
SessionTTL == 23 * 60 * 60
\* low.py:102  time.time() + 365 * 24 * 60 * 60
ApiKeyTTL == 365 * 24 * 60 * 60
\* low.py:47  time.time() - 1
InitialExpiry(t) == t - 1

(* ------------------------------ inputs -------------------------------- *)
\* the clock value at construction
T0 == 0
\* how far the clock may jump between two operations
TickSteps == {1, SessionTTL - 1, ApiKeyTTL}
\* seconds one HTTP exchange may take
Latencies == {1}
\* base urls handed to the constructor (low.py:17), with and without a
\* trailing slash
BaseUrls == { <<"https:", "", "api.smaxtec.com", "api", "v1">>,
              <<"https:", "", "api.smaxtec.com", "api", "v1", "">> }
Paths == { <<"service", "status">> }
\* the path lists handed to async_get
Batches == { <<>>, << <<"animal", "by_id">> >>,
             << <<"animal", "by_id">>, <<"service", "status">> >> }
Versions == {None, "v2"}
\* url pieces the pattern [vV][0-9]+ matches
VersionSegs == {"v0", "v1", "v2", "V1"}
Methods == {"GET", "POST", "PUT", "DELETE"}
\* a transport-level failure: no response at all
NetErr == [status |-> 0, body |-> [raw |-> "no response"]]
\* a body that is no JSON document
Garbage == [raw |-> "garbage"]
\* bodies: a JSON object with a token, one without, or bytes that do not parse
LoginResponses ==
    { [status |-> 200, body |-> [token |-> "T1"]],
      [status |-> 200, body |-> [token |-> "T2"]],
      [status |-> 200, body |-> [other |-> "x"]],
      [status |-> 204, body |-> Garbage],
      [status |-> 401, body |-> Garbage],
      [status |-> 409, body |-> Garbage],
      [status |-> 422, body |-> Garbage],
      [status |-> 404, body |-> Garbage],
      [status |-> 500, body |-> Garbage],
      NetErr }
Responses ==
    { [status |-> 200, body |-> [data |-> "d"]],
      [status |-> 200, body |-> Garbage],
      [status |-> 301, body |-> Garbage],
      [status |-> 302, body |-> [data |-> "d"]],
      [status |-> 404, body |-> [message |-> "not found"]],
      [status |-> 404, body |-> [data |-> "d"]],
      [status |-> 404, body |-> Garbage],
      [status |-> 500, body |-> Garbage],
      NetErr }
\* what the redirect target may answer to a followed request
FollowResponses ==
    { [status |-> 200, body |-> [data |-> "d"]],
      [status |-> 404, body |-> [message |-> "not found"]],
      NetErr }

(* ------------------------------- state -------------------------------- *)
VARIABLES
    api_base_url, email, password, api_key, asynchronous,   \* configuration
    session,             \* self._session: None, "Session" or "FuturesSession"
    session_key,         \* self._session_key
    session_expiration,  \* self._session_expiration
    headers,             \* self._session.headers["Authorization"], <<>> if unset
    counter,             \* self.counter
    requests,            \* self.requests
    now,                 \* time.time()
    trace,               \* history variable: what the running (or last) operation did
    last,                \* history variable: how the last operation ended
    acquired,            \* history variable: <<t, T>> of the last token a login returned
    log,                 \* history variable: every record track_request appended
    pc,                  \* async_get: "idle", "issuing" (first loop), "resolving"
    batch,               \* async_get: its paths, version and loop index
    futures,             \* async_get: the list futures, and each future's state
    result,              \* async_get: the list result
    query,               \* a paginated or chunked query: its locals and outcome
    ops, ticks           \* how many operations / clock advances so far

vars == <<api_base_url, email, password, api_key, asynchronous, session,
          session_key, session_expiration, headers, counter, requests, now,
          trace, last, acquired, log, pc, batch, futures, result, query, ops,
          ticks>>

config == <<api_base_url, email, password, api_key, asynchronous>>

(* ------------------------------ helpers ------------------------------- *)
\* Python truthiness of a str-or-None
Truthy(x) == x # None /\ x # ""

\* "Bearer {}".format(key)
Bearer(key) == <<"Bearer", key>>

\* str.rstrip("/"): drop the empty pieces the trailing slashes leave
rstrip_one(u) == IF Len(u) > 0 /\ u[Len(u)] = "" THEN SubSeq(u, 1, Len(u) - 1) ELSE u
RECURSIVE rstrip(_)
rstrip(u) ==
    IF Len(u) > 0 /\ u[Len(u)] = "" THEN rstrip(SubSeq(u, 1, Len(u) - 1)) ELSE u

\* re.sub(r'\/[vV][0-9]+\/', "/{}/".format(v), url) from piece i on; free says
\* that the slash before piece i was not used up by the match before it
RECURSIVE resub(_, _, _, _)
resub(url, v, i, free) ==
    IF i > Len(url) THEN <<>>
    ELSE LET hit == free /\ i > 1 /\ i < Len(url) /\ url[i] \in VersionSegs
         IN  <<IF hit THEN v ELSE url[i]>> \o resub(url, v, i + 1, ~hit)

to_url_first(path, version_modifier) ==
    LET url == api_base_url \o path
        hits == {i \in 2..(Len(url) - 1) : url[i] \in VersionSegs}
        first == IF hits = {} THEN 0 ELSE CHOOSE i \in hits : \A j \in hits : i <= j
    IN  IF version_modifier # None
        THEN [i \in 1..Len(url) |-> IF i = first THEN version_modifier ELSE url[i]]
        ELSE url
to_url(path, version_modifier) ==
    LET url == api_base_url \o path
    IN  IF version_modifier # None THEN resub(url, version_modifier, 1, TRUE)
        ELSE url

Err(type, status, msg) == [type |-> type, status |-> status, msg |-> msg]
NoErr == Err("", 0, "")
NoHeader == <<>>
NoValue == [none |-> TRUE]

\* r.json() succeeds
Parses(body) == "raw" \notin DOMAIN body

\* Response.raise_for_status raises
RaisesForStatus(status) == 400 <= status /\ status < 600

\* the part of the state the session property and _login read and write
Auth == [session |-> session, session_key |-> session_key,
         session_expiration |-> session_expiration, headers |-> headers]

Req(url, status, start, end) ==
    [url |-> url, status |-> status, start |-> start, end |-> end]

\* self.requests.pop(0)
Evict_last(h) == SubSeq(h, 1, Len(h) - 1)
Evict(h) == Tail(h)

\* track_request on counter c and history h: both after it
track_request_skip(c, h, rec) == [counter |-> c + 1, requests |-> h]
track_request_nocap(c, h, rec) == [counter |-> c + 1, requests |-> Append(h, rec)]
track_request_nocount(c, h, rec) ==
    [counter |-> c, requests |-> IF Len(h) >= HistoryCap THEN Append(Tail(h), rec)
                                 ELSE Append(h, rec)]
track_request(c, h, rec) ==
    LET h1 == Append(h, rec)
    IN  [counter |-> c + 1,
         requests |-> IF Len(h1) > HistoryCap THEN Evict(h1) ELSE h1]

(* --------------------------- session / login -------------------------- *)
\* low.py:94-96  diff = time.time() - self._session_expiration; diff < 0.0
NotExpired_le(st, t) == t - st.session_expiration <= 0
NotExpired_never(st, t) == FALSE
NotExpired(st, t) == t - st.session_expiration < 0

\* low.py:98  if self.api_key
UseApiKey_never == FALSE
UseApiKey == Truthy(api_key)

\* low.py:105  self.email is None or self.password is None
CredentialsMissing_both == email = None /\ password = None
CredentialsMissing == email = None \/ password = None

\* low.py:113  the statuses answered with "invalid login credentials"
InvalidCredentialStatuses_401 == {401}
InvalidCredentialStatuses == {401, 409, 422}

\* low.py:99-101 and 117-119: the key is stored and becomes the bearer header
Install_keyonly(st, key) == [st EXCEPT !.session_key = key]
Install(st, key) == [st EXCEPT !.session_key = key, !.headers = Bearer(key)]

\* low.py:105-116  _login raises before it has written anything
LoginFailed_backoff(st) == [st EXCEPT !.session_expiration = @ + SessionTTL]
LoginFailed(st) == st

\* BaseAPI._login on the auth state st at time t.  lr is what the server
\* answers to a token request and llat how long that exchange takes; acq is
\* the history variable acquired.
login(st, t, acq, lr, llat) ==
    LET out(ok, err, ev, t2) ==
            [st |-> IF ok THEN st ELSE LoginFailed(st), t |-> t2, ok |-> ok,
             err |-> err, ev |-> ev, acq |-> acq]
        req == [ev |-> "login_request", method |-> "GET",
                url |-> to_url(<<"user", "get_token">>, None),
                params |-> [email |-> email, password |-> password],
                auth |-> st.headers]
        ans == [ev |-> "login_response", status |-> lr.status]
        t2 == t + llat
    IN  IF NotExpired(st, t) THEN out(TRUE, NoErr, <<>>, t)
        ELSE IF UseApiKey THEN
            [st |-> [Install(st, api_key) EXCEPT
                        !.session_expiration = t + ApiKeyTTL],
             t |-> t, ok |-> TRUE, err |-> NoErr, ev |-> <<>>, acq |-> acq]
        ELSE IF CredentialsMissing THEN
            out(FALSE, Err("ValueError", 0,
                           "email and password are needed for API access"),
                <<>>, t)
        ELSE IF lr = NetErr THEN
            out(FALSE, Err("ConnectionError", 0, "no response"), <<req, ans>>, t2)
        ELSE IF lr.status # 200 /\ lr.status \in InvalidCredentialStatuses THEN
            out(FALSE, Err("ValueError", lr.status, "invalid login credentials"),
                <<req, ans>>, t2)
        ELSE IF lr.status # 200 /\ RaisesForStatus(lr.status) THEN
            out(FALSE, Err("HTTPError", lr.status, "raise_for_status"),
                <<req, ans>>, t2)
        ELSE IF ~Parses(lr.body) THEN
            out(FALSE, Err("JSONDecodeError", lr.status, "json"), <<req, ans>>, t2)
        ELSE IF "token" \notin DOMAIN lr.body THEN
            out(FALSE, Err("KeyError", lr.status, "token"), <<req, ans>>, t2)
        ELSE
            [st |-> [Install(st, lr.body.token) EXCEPT
                        !.session_expiration = t2 + SessionTTL],
             t |-> t2, ok |-> TRUE, err |-> NoErr, ev |-> <<req, ans>>,
             acq |-> <<t2, lr.body.token>>]

\* low.py:66-68  the handle is handed out only when _login came back
Validated_always(S) == TRUE
Validated(S) == S.ok

\* low.py:59  if not self._session
NeedsSession_always(st) == TRUE
NeedsSession(st) == st.session = None

\* the token request is made on the session itself: track_request is not
\* called for it (low.py:108-110)
TrackLogin_tracked(c, h, S) ==
    IF \E i \in 1..Len(S.ev) : S.ev[i].ev = "login_response"
    THEN track_request(c, h, Req(to_url(<<"user", "get_token">>, None), 0, S.t, S.t))
    ELSE [counter |-> c, requests |-> h]
TrackLogin(c, h, S) == [counter |-> c, requests |-> h]

\* the session property: create the transport handle if there is none, then
\* _login; its events are bracketed by "ensure" and "ensured"
session_prop(st, t, acq, lr, llat) ==
    LET fresh == NeedsSession(st)
        st1 == IF fresh
               THEN [st EXCEPT !.session = IF asynchronous THEN "FuturesSession"
                                           ELSE "Session"]
               ELSE st
        L == login(st1, t, acq, lr, llat)
    IN  [L EXCEPT !.ev =
            <<[ev |-> "ensure", at |-> t, acq |-> acq]>>
            \o (IF fresh THEN <<[ev |-> "session_created", kind |-> st1.session]>>
                ELSE <<>>)
            \o L.ev
            \o <<[ev |-> "ensured", ok |-> L.ok, err |-> L.err]>>]

(* ------------------------------ dispatch ------------------------------ *)
\* post and put pass allow_redirects=False; get and delete leave the default
AllowRedirects_default(method) == TRUE
AllowRedirects(method) == method \notin {"POST", "PUT"}

\* the statuses the transport takes for a redirect to follow
RedirectStatuses == {301, 302}

\* the transport answers resp; a redirect is followed (one more request,
\* answered resp2) exactly when redirects are allowed
Follows(allow_redirects, resp) ==
    resp # NetErr /\ resp.status \in RedirectStatuses /\ allow_redirects

transport(method, url, auth, allow_redirects, resp, resp2) ==
    LET sent == [ev |-> "request", method |-> method, url |-> url,
                 auth |-> auth, allow_redirects |-> allow_redirects]
        hop == [ev |-> "follow", method |-> method, url |-> <<"redirect-target">>,
                auth |-> auth, allow_redirects |-> allow_redirects]
        redirected == [ev |-> "redirected", status |-> resp.status]
    IN  IF Follows(allow_redirects, resp)
        THEN [ev |-> <<sent, redirected, hop>>, r |-> resp2]
        ELSE [ev |-> <<sent>>, r |-> resp]

\* the answer the client ends up with for request k (status 0: none, the
\* transport failed), and the client taking it (future.result() or the plain
\* return of session.get)
Answer(k, url, r) ==
    [ev |-> "answer", k |-> k, url |-> url, status |-> r.status, body |-> r.body]
Taken(k) == [ev |-> "result", k |-> k]

\* r.json().get("message", "unknown"), "unknown" when that raises
Message(body) ==
    IF Parses(body) /\ "message" \in DOMAIN body THEN body.message ELSE "unknown"

\* what get, post, put and delete do with a response once it is tracked
Classify_parsefirst(method, r) ==
    LET raise(e) == [out |-> "raise", err |-> e, value |-> NoValue]
    IN  IF method \in {"POST", "PUT"} /\ r.status = 301
        THEN raise(Err("HTTPError", 301, "301 redirect"))
        ELSE IF ~Parses(r.body)
        THEN raise(Err("JSONDecodeError", r.status, "json"))
        ELSE IF 400 <= r.status /\ r.status < 500
        THEN raise(Err("HTTPError", r.status, r.body.message))
        ELSE IF RaisesForStatus(r.status)
        THEN raise(Err("HTTPError", r.status, "raise_for_status"))
        ELSE [out |-> "return", err |-> NoErr, value |-> r.body]
Classify(method, r) ==
    LET raise(e) == [out |-> "raise", err |-> e, value |-> NoValue]
    IN  IF method \in {"POST", "PUT"} /\ r.status = 301
        THEN raise(Err("HTTPError", 301, "301 redirect"))
        ELSE IF 400 <= r.status /\ r.status < 500
        THEN raise(Err("HTTPError", r.status, Message(r.body)))
        ELSE IF RaisesForStatus(r.status)
        THEN raise(Err("HTTPError", r.status, "raise_for_status"))
        ELSE IF ~Parses(r.body)
        THEN raise(Err("JSONDecodeError", r.status, "json"))
        ELSE [out |-> "return", err |-> NoErr, value |-> r.body]

\* the state an operation starts in, and whether the session validation of
\* the operation before it failed
Snapshot == [auth |-> Auth, counter |-> counter, requests |-> requests,
             now |-> now, acquired |-> acquired,
             login_failed |-> \E i \in 1..Len(trace) :
                                 trace[i].ev = "ensured" /\ ~trace[i].ok]

Last(op, url, C, pre) ==
    [op |-> op, url |-> url, out |-> C.out, err |-> C.err, value |-> C.value,
     pre |-> pre]

\* async_get's locals when it is not running
NoBatch == [paths |-> <<>>, version |-> None, i |-> 1, j |-> 1]

\* a future whose response has not arrived
Pending == [status |-> -1, body |-> [raw |-> "pending"]]

\* get, post, put, delete
Dispatch(method, path, version, lr, llat, resp, lat, resp2) ==
    LET url == to_url(path, version)
        start == now
        S == session_prop(Auth, now, acquired, lr, llat)
        X == transport(method, url, S.st.headers, AllowRedirects(method),
                       resp, resp2)
        t2 == S.t + lat
        rec == Req(url, X.r.status, start, t2)
        L == TrackLogin(counter, requests, S)
        T == track_request(L.counter, L.requests, rec)
        failed(e) == [out |-> "raise", err |-> e, value |-> NoValue]
    IN  /\ pc = "idle"
        /\ ops' = ops + 1
        /\ session' = S.st.session
        /\ session_key' = S.st.session_key
        /\ session_expiration' = S.st.session_expiration
        /\ headers' = S.st.headers
        /\ acquired' = S.acq
        /\ IF ~Validated(S) THEN
               /\ now' = S.t
               /\ trace' = S.ev
               /\ last' = Last(method, url, failed(S.err), Snapshot)
               /\ counter' = L.counter
               /\ requests' = L.requests
               /\ UNCHANGED log
           ELSE IF X.r = NetErr THEN
               /\ now' = t2
               /\ trace' = S.ev \o X.ev \o <<Answer(1, url, X.r), Taken(1)>>
               /\ last' = Last(method, url,
                               failed(Err("ConnectionError", 0, "no response")),
                               Snapshot)
               /\ counter' = L.counter
               /\ requests' = L.requests
               /\ UNCHANGED log
           ELSE
               /\ now' = t2
               /\ counter' = T.counter
               /\ requests' = T.requests
               /\ log' = Append(log, rec)
               /\ trace' = S.ev \o X.ev \o <<Answer(1, url, X.r), Taken(1)>>
               /\ last' = Last(method, url, Classify(method, X.r), Snapshot)
        /\ batch' = NoBatch
        /\ futures' = <<>>
        /\ result' = <<>>
        /\ UNCHANGED <<config, pc, ticks>>

\* one call of get, post, put or delete with its inputs drawn from the given
\* sets; an input the call never reads is not enumerated
RequestOp(M, P, V, LR, LL, R, LAT) ==
    \E m \in M, p \in P, v \in V :
        LET probe == session_prop(Auth, now, acquired, NetErr, 0)
            calls == \E i \in 1..Len(probe.ev) : probe.ev[i].ev = "login_request"
        IN  \E lr \in (IF calls THEN LR ELSE {NetErr}),
               llat \in (IF calls THEN LL ELSE {0}) :
                LET ok == session_prop(Auth, now, acquired, lr, llat).ok
                IN  \E resp \in (IF ok THEN R ELSE {NetErr}),
                       lat \in (IF ok THEN LAT ELSE {0}) :
                        \E resp2 \in (IF ok /\ Follows(AllowRedirects(m), resp)
                                      THEN FollowResponses ELSE {resp}) :
                            /\ Dispatch(m, p, v, lr, llat, resp, lat, resp2)
                            /\ UNCHANGED query

(* ------------------------------ async_get ----------------------------- *)
\* low.py:142  if not self._async
AsyncAvailable_always == TRUE
AsyncAvailable == asynchronous

\* async_get up to its first loop: the mode check and the locals
AsyncGetStart(paths, version) ==
    /\ pc = "idle"
    /\ ops' = ops + 1
    /\ trace' = <<>>
    /\ futures' = <<>>
    /\ result' = <<>>
    /\ IF ~AsyncAvailable THEN
           /\ last' = Last("async_get", <<>>,
                           [out |-> "raise",
                            err |-> Err("NotImplementedError", 0,
                                        "async_get is only available with an asynchronous session"),
                            value |-> NoValue], Snapshot)
           /\ batch' = NoBatch
           /\ pc' = "idle"
       ELSE IF paths = <<>> THEN
           /\ last' = Last("async_get", <<>>,
                           [out |-> "return", err |-> NoErr,
                            value |-> [list |-> <<>>]], Snapshot)
           /\ batch' = NoBatch
           /\ pc' = "idle"
       ELSE
           /\ last' = Last("async_get", <<>>,
                           [out |-> "running", err |-> NoErr, value |-> NoValue],
                           Snapshot)
           /\ batch' = [paths |-> paths, version |-> version, i |-> 1, j |-> 1]
           /\ pc' = "issuing"
    /\ UNCHANGED <<config, session, session_key, session_expiration, headers,
                   counter, requests, now, acquired, log, query, ticks>>

\* one round of the first loop: the session property, then session.get, which
\* hands back a future at once
AsyncIssue(lr, llat) ==
    LET path == batch.paths[batch.i]
        url == to_url(path, batch.version)
        start == now
        S == session_prop(Auth, now, acquired, lr, llat)
        sent == [ev |-> "request", method |-> "GET", url |-> url,
                 auth |-> S.st.headers, allow_redirects |-> AllowRedirects("GET")]
        L == TrackLogin(counter, requests, S)
    IN  /\ pc = "issuing"
        /\ counter' = L.counter
        /\ requests' = L.requests
        /\ session' = S.st.session
        /\ session_key' = S.st.session_key
        /\ session_expiration' = S.st.session_expiration
        /\ headers' = S.st.headers
        /\ acquired' = S.acq
        /\ now' = S.t
        /\ IF ~Validated(S) THEN
               /\ trace' = trace \o S.ev
               /\ last' = [last EXCEPT !.out = "raise", !.err = S.err]
               /\ pc' = "idle"
               /\ UNCHANGED <<batch, futures>>
           ELSE
               /\ trace' = trace \o S.ev \o <<sent>>
               /\ futures' = Append(futures, [url |-> url, start |-> start,
                                              r |-> Pending, resolved |-> FALSE])
               /\ batch' = [batch EXCEPT !.i = batch.i + 1]
               /\ pc' = IF batch.i = Len(batch.paths) THEN "resolving" ELSE "issuing"
               /\ UNCHANGED last
        /\ UNCHANGED <<config, log, result, query, ops, ticks>>

AsyncIssueOp(LR, LL) ==
    LET probe == session_prop(Auth, now, acquired, NetErr, 0)
        calls == \E i \in 1..Len(probe.ev) : probe.ev[i].ev = "login_request"
    IN  \E lr \in (IF calls THEN LR ELSE {NetErr}),
           llat \in (IF calls THEN LL ELSE {0}) : AsyncIssue(lr, llat)

\* a worker thread of the pool finishes request k of the running batch
ServerRespond(k, resp, resp2) ==
    LET f == futures[k]
        X == transport("GET", f.url, headers, AllowRedirects("GET"), resp, resp2)
    IN  /\ pc # "idle"
        /\ f.r = Pending
        /\ futures' = [futures EXCEPT ![k].r = X.r]
        /\ trace' = trace \o Tail(X.ev) \o <<Answer(k, f.url, X.r)>>
        /\ UNCHANGED <<config, session, session_key, session_expiration, headers,
                       counter, requests, now, last, acquired, log, pc, batch,
                       result, query, ops, ticks>>

ServerRespondOp(R) ==
    \E k \in 1..Len(futures), resp \in R :
        \E resp2 \in (IF Follows(AllowRedirects("GET"), resp)
                      THEN FollowResponses ELSE {resp}) :
            ServerRespond(k, resp, resp2)

\* low.py:155  for future in futures: the future round j of n takes
ResolveOrder_reverse(n, j) == n + 1 - j
ResolveOrder(n, j) == j

\* low.py:170  except Exception: what the second loop swallows
Caught_httponly(e) == e.type = "HTTPError"
Caught(e) == TRUE

\* one round of the second loop: future.result() of the next future in
\* submission order, which waits until that future is done
AsyncResolve ==
    LET k == ResolveOrder(Len(futures), batch.j)
        f == futures[k]
        rec == Req(f.url, f.r.status, f.start, now)
        T == track_request(counter, requests, rec)
        C == Classify("GET", f.r)
        res == IF f.r # NetErr /\ C.out = "return"
               THEN Append(result, <<C.value, f.url>>) ELSE result
        e == IF f.r = NetErr THEN Err("ConnectionError", 0, "no response") ELSE C.err
    IN  /\ pc = "resolving"
        /\ f.r # Pending
        /\ futures' = [futures EXCEPT ![k].resolved = TRUE]
        /\ IF f.r = NetErr THEN
               /\ trace' = trace \o <<Taken(k)>>
                                 \o (IF Caught(e) THEN <<[ev |-> "print", err |-> e]>>
                                     ELSE <<>>)
               /\ UNCHANGED <<counter, requests, log>>
           ELSE
               /\ counter' = T.counter
               /\ requests' = T.requests
               /\ log' = Append(log, rec)
               /\ trace' = trace \o <<Taken(k)>>
                                 \o (IF C.out = "return" \/ ~Caught(e) THEN <<>>
                                     ELSE <<[ev |-> "print", err |-> e]>>)
        /\ result' = res
        /\ IF e # NoErr /\ ~Caught(e) THEN
               /\ pc' = "idle"
               /\ last' = [last EXCEPT !.out = "raise", !.err = e]
               /\ UNCHANGED batch
           ELSE IF batch.j = Len(futures) THEN
               /\ pc' = "idle"
               /\ last' = [last EXCEPT !.out = "return", !.value = [list |-> res]]
               /\ UNCHANGED batch
           ELSE
               /\ pc' = "resolving"
               /\ batch' = [batch EXCEPT !.j = batch.j + 1]
               /\ UNCHANGED last
        /\ UNCHANGED <<config, session, session_key, session_expiration, headers,
                       now, acquired, query, ops, ticks>>

\* the clock advances by one of the steps D
TickOp(D) ==
    /\ \E d \in D : now' = now + d
    /\ ticks' = ticks + 1
    /\ UNCHANGED <<config, session, session_key, session_expiration, headers,
                   counter, requests, trace, last, acquired, log, pc, batch,
                   futures, result, query, ops>>

(* -------------------------- paginated queries ------------------------- *)
\* the limit the paginated helpers send: 100 (low.py:411 and the like), or
\* what the caller of get_animal_events passes
Limits == {0, 2, 100}
\* the offset of the first fetch: 0, or what the caller of get_animal_events
\* passes along with its limit
FirstOffset(limit) == IF limit = 2 THEN 5 ELSE 0
\* how many records the server may put into one page
PageSizes(limit) == {0, limit, limit + 1} \cup (IF limit = 100 THEN {37} ELSE {1})
\* the next_offset the server names with a page of n records: the records
\* counted on, or a cursor of its own
ServerNext(f, offset, limit, n) == IF n = limit THEN offset + n ELSE 1000 * f
\* the records of the f-th page the server hands out
PageData(f, n) == [i \in 1..n |-> 1000 * f + i]
\* what the server answers to the f-th fetch of a query sent with offset
PageResponses(f, offset, limit) ==
    { [status |-> 200,
       body |-> [data |-> PageData(f, n),
                 pagination |-> [next_offset |-> ServerNext(f, offset, limit, n)]]] :
          n \in PageSizes(limit) }
    \cup { [status |-> 200, body |-> [data |-> PageData(f, limit)]],
           [status |-> 200, body |-> [other |-> "x"]],
           [status |-> 500, body |-> Garbage],
           NetErr }

NoQuery == [pc |-> "idle", n |-> 0]

\* low.py:399  len(events["data"]) < params["limit"]
ShortPage_le(n, limit) == n <= limit
ShortPage(n, limit) == n < limit

\* low.py:402  params["offset"] = events["pagination"]["next_offset"]
NextOffset_counted(q, body) == q.offset + q.limit
NextOffset(q, body) == body.pagination.next_offset

\* the params of a fetch
PageParams(q) == [path |-> q.path, version |-> q.version, limit |-> q.limit,
                  offset |-> q.offset]

\* an exception inside the loop leaves the helper: nothing catches it
Propagate_partial(q, e) == [q EXCEPT !.pc = "done", !.out = "return", !.value = q.all]
Propagate(q, e) == [q EXCEPT !.pc = "done", !.out = "raise", !.err = e]

\* a paginated helper up to its loop: params and the empty accumulator
PageStart(path, version, limit) ==
    /\ pc = "idle"
    /\ query.pc # "fetching"
    /\ query' = [pc |-> "fetching", n |-> query.n + 1, kind |-> "paged",
                 path |-> path, version |-> version,
                 limit |-> limit, offset |-> FirstOffset(limit), all |-> <<>>,
                 given |-> [limit |-> limit, offset |-> FirstOffset(limit)],
                 fetches |-> 0, sent |-> <<>>, pages |-> <<>>, bodies |-> <<>>,
                 out |-> "running", err |-> NoErr, value |-> <<>>]
    /\ UNCHANGED <<config, session, session_key, session_expiration, headers,
                   counter, requests, now, trace, last, acquired, log, pc, batch,
                   futures, result, ops, ticks>>

\* one round of the loop: self.get with the current params, then the page is
\* added, and the loop ends or takes the next offset
PageFetch(lr, llat, resp, lat) ==
    /\ query.pc = "fetching"
    /\ query.kind = "paged"
    /\ Dispatch("GET", query.path, query.version, lr, llat, resp, lat, resp)
    /\ LET q == [query EXCEPT !.fetches = @ + 1,
                              !.sent = Append(@, PageParams(query))]
           raise(e) == Propagate(q, e)
           body == last'.value
       IN  query' =
             IF last'.out = "raise" THEN raise(last'.err)
             ELSE IF "data" \notin DOMAIN body
             THEN raise(Err("KeyError", 0, "data"))
             ELSE LET q1 == [q EXCEPT !.all = @ \o body.data,
                                      !.pages = Append(@, body.data),
                                      !.bodies = Append(@, body)]
                  IN  IF ShortPage(Len(body.data), q.limit)
                      THEN [q1 EXCEPT !.pc = "done", !.out = "return",
                                      !.value = q1.all]
                      ELSE IF "pagination" \notin DOMAIN body
                      THEN Propagate(q1, Err("KeyError", 0, "pagination"))
                      ELSE [q1 EXCEPT !.offset = NextOffset(q1, body)]

PageFetchOp(LR, LL, LAT) ==
    /\ query.pc = "fetching"
    /\ \E lr \in LR, llat \in LL, lat \in LAT :
          \E resp \in PageResponses(query.fetches + 1, query.offset, query.limit) :
              PageFetch(lr, llat, resp, lat)

(* ----------------------------- parameters ---------------------------- *)
\* keys in the order the caller writes them, and the values a caller passes:
\* None, and 0, False, [], 1 written as Python prints them
ParamKeys == <<"a", "b", "c", "d", "e">>
ParamValues == {None, "0", "False", "[]", "1"}
\* the dicts handed to HDict: sequences of <<key, value>> in insertion order
ParamInputs ==
    UNION { { [i \in 1..n |-> <<ParamKeys[i], v[i]>>] : v \in [1..n -> ParamValues] } :
            n \in 0..MaxParams }

\* HDict: the entries whose value is not None, in insertion order
Present(kv) == kv[2] # None
HDict(pairs) == SelectSeq(pairs, Present)

\* low.py:254-262  params = HDict({...}); self.get(path, params=params)
BuildParams_plain(pairs) == pairs
BuildParams(pairs) == HDict(pairs)

\* a helper that builds its params and makes one get with them
ParamCall(path, pairs, lr, llat, resp, lat) ==
    /\ query.pc # "fetching"
    /\ Dispatch("GET", path, None, lr, llat, resp, lat, resp)
    /\ query' = [pc |-> "done", n |-> query.n, kind |-> "params",
                 given |-> pairs,
                 params |-> IF Validated(session_prop(Auth, now, acquired, lr, llat))
                            THEN <<BuildParams(pairs)>> ELSE <<>>]

(* ------------------------------ lookups ------------------------------- *)
\* the single-resource lookups of LowLevelPublicAPI and what callers pass
Lookups == {"get_status", "get_animal_by_id", "get_device_by_id",
            "get_organisation_by_id"}
Identifiers == {"abcd", "", None}

\* low.py:330, 351, 355, 359  the path handed to self.get
LookupPath_status(name) == <<"service", "status">>
LookupPath(name) ==
    CASE name = "get_status" -> <<"service", "status">>
      [] name = "get_animal_by_id" -> <<"animal", "by_id">>
      [] name = "get_device_by_id" -> <<"device", "by_id">>
      [] name = "get_organisation_by_id" -> <<"organisation", "by_id">>

\* low.py:350, 354, 358  the dict handed to HDict; get_status has none
LookupGiven(name, x) ==
    CASE name = "get_status" -> <<>>
      [] name = "get_animal_by_id" -> << <<"animal_id", x>> >>
      [] name = "get_device_by_id" -> << <<"device_id", x>> >>
      [] name = "get_organisation_by_id" -> << <<"organisation_id", x>> >>

\* a lookup: one self.get with its path and params
Lookup(name, x, lr, llat, resp, lat) ==
    /\ query.pc # "fetching"
    /\ Dispatch("GET", LookupPath(name), None, lr, llat, resp, lat, resp)
    /\ query' = [pc |-> "done", n |-> query.n, kind |-> "lookup",
                 name |-> name, arg |-> x,
                 calls |-> << [method |-> "GET", path |-> LookupPath(name),
                               params |-> BuildParams(LookupGiven(name, x))] >>]

(* ---------------------------- url resolution -------------------------- *)
\* base urls with no, one and two trailing slashes, with one, two adjacent,
\* two separate and no version segment
UrlBases ==
    { <<"https:", "", "h", "api", "v1">>,
      <<"https:", "", "h", "api", "v1", "">>,
      <<"https:", "", "h", "api", "v1", "", "">>,
      <<"https:", "", "h", "V1", "v2", "api">>,
      <<"https:", "", "h", "v0", "api", "v1">>,
      <<"https:", "", "h", "api">> }
UrlPaths == { <<"service", "status">>, <<"v1">>, <<"v1", "x">> }
\* the version keyword of a call: absent, a version, the empty string
UrlVersions == {None, "v2", ""}

\* get, post, put or delete of path with version=v, with what the caller
\* passed kept in query
UrlCall(method, path, version, lr, llat, resp, lat) ==
    /\ query.pc # "fetching"
    /\ Dispatch(method, path, version, lr, llat, resp, lat, resp)
    /\ query' = [pc |-> "done", n |-> query.n, kind |-> "url",
                 path |-> path, version |-> version]

(* ----------------------------- bulk writes --------------------------- *)
\* the bulk sensor-data writes of LowLevelInternAPI, their verb and path
BulkWrites == {"insertSensorDataBulk", "updateSensorDataBulk",
               "insertGroupSensorDataBulk"}
BulkMethod(op) == IF op = "updateSensorDataBulk" THEN "POST" ELSE "PUT"
BulkPath(op) ==
    IF op = "insertGroupSensorDataBulk" THEN <<"groupsensordatabulk">>
    ELSE <<"sensordatabulk">>

\* a point is (timestamp, value), each given by the Python type of the object
GoodPoint == [ts |-> "int", value |-> "float"]
BadTs == [ts |-> "str", value |-> "int"]
BadValue == [ts |-> "float", value |-> "None"]
BulkData == { <<>>, <<GoodPoint>>, <<BadTs>>, <<GoodPoint, BadValue>>,
              <<GoodPoint, GoodPoint>> }
BulkSeries == { [metric |-> "m", data |-> d] : d \in BulkData }
\* the argument sensordata: its items, handed over as a list or as a
\* one-shot iterator (a generator, a map object)
BulkItems == { <<>> } \cup { <<x>> : x \in BulkSeries }
             \cup { <<x, y>> : x, y \in BulkSeries }
Containers == {"list", "iterator"}

\* isinstance(x, (int, float)); bool is a subclass of int
Numeric(k) == k \in {"int", "float", "bool"}

\* list(sensordata), and what a later "for s in sensordata" still yields:
\* iterating a list starts over, an iterator is used up
Consume(container, items) ==
    [taken |-> items, rest |-> IF container = "iterator" THEN <<>> ELSE items]

\* the two isinstance checks on one point
CheckPoint(point) ==
    IF ~Numeric(point.ts) THEN Err("ValueError", 0, "Invalid TS Point")
    ELSE IF ~Numeric(point.value) THEN Err("ValueError", 0, "Invalid VALUE Point")
    ELSE NoErr

\* for point in d
RECURSIVE CheckPoints(_)
CheckPoints(d) ==
    IF d = <<>> THEN NoErr
    ELSE IF CheckPoint(Head(d)) # NoErr THEN CheckPoint(Head(d))
    ELSE CheckPoints(Tail(d))

\* for s in sensordata
RECURSIVE CheckSeries(_)
CheckSeries(ss) ==
    IF ss = <<>> THEN NoErr
    ELSE IF CheckPoints(Head(ss).data) # NoErr THEN CheckPoints(Head(ss).data)
    ELSE CheckSeries(Tail(ss))

\* insertSensorDataBulk, updateSensorDataBulk, insertGroupSensorDataBulk:
\* build the payload, run the checks, then put or post it. The payload is
\* wrapped in a mapping under the key "sensordata".
BulkWrite(op, container, items, lr, llat, resp, lat) ==
    LET C == Consume(container, items)
        e == CheckSeries(C.rest)
    IN  /\ query.pc # "fetching"
        /\ query' = [pc |-> "done", n |-> query.n, kind |-> "bulk", op |-> op,
                     container |-> container, items |-> items,
                     payload |-> C.taken]
        /\ IF e # NoErr
           THEN /\ pc = "idle"
                /\ ops' = ops + 1
                /\ trace' = <<>>
                /\ last' = Last(op, <<>>,
                                [out |-> "raise", err |-> e, value |-> NoValue],
                                Snapshot)
                /\ UNCHANGED <<config, session, session_key, session_expiration,
                               headers, counter, requests, now, acquired, log,
                               pc, batch, futures, result, ticks>>
           ELSE Dispatch(BulkMethod(op), BulkPath(op), None, lr, llat, resp,
                         lat, resp)

(* --------------------------- chunked queries -------------------------- *)
\* low.py:363  splitTimeRange(from_date, to_date, 100)
ChunkSize == 100
\* the ranges a caller asks for
RangeStarts == {0, 30}
RangeEnds == {30, 100, 130, 250}
\* how many records the server returns for one sub-range
ChunkSizes == {0, 2}
ChunkResponses(f) ==
    { [status |-> 200, body |-> [data |-> PageData(f, n)]] : n \in ChunkSizes }
    \cup { [status |-> 200, body |-> [other |-> "x"]],
           [status |-> 500, body |-> Garbage] }

\* splitTimeRange(start, end, c): consecutive sub-ranges of at most c
RECURSIVE splitTimeRange(_, _, _)
splitTimeRange(start, end, c) ==
    IF start >= end THEN <<>>
    ELSE LET stop == IF start + c < end THEN start + c ELSE end
         IN  <<<<start, stop>>>> \o splitTimeRange(stop, end, c)

\* low.py:363  the sub-ranges in the order the loop takes them
ChunkOrder_reverse(chunks) == [i \in 1..Len(chunks) |-> chunks[Len(chunks) + 1 - i]]
ChunkOrder(chunks) == chunks

\* get_device_sensordata up to its loop
ChunkStart(from_date, to_date) ==
    /\ pc = "idle"
    /\ query.pc # "fetching"
    /\ LET chunks == ChunkOrder(splitTimeRange(from_date, to_date, ChunkSize))
       IN  query' = [pc |-> IF chunks = <<>> THEN "done" ELSE "fetching",
                     n |-> query.n + 1, kind |-> "chunked",
                     from_date |-> from_date, to_date |-> to_date,
                     chunks |-> chunks, i |-> 1, data |-> <<>>,
                     fetches |-> 0, sent |-> <<>>, pages |-> <<>>,
                     out |-> IF chunks = <<>> THEN "return" ELSE "running",
                     err |-> NoErr, value |-> <<>>]
    /\ UNCHANGED <<config, session, session_key, session_expiration, headers,
                   counter, requests, now, trace, last, acquired, log, pc, batch,
                   futures, result, ops, ticks>>

\* one round of the loop: _get_device_sensordata for the sub-range, its data
\* added
ChunkFetch(lr, llat, resp, lat) ==
    /\ query.pc = "fetching"
    /\ query.kind = "chunked"
    /\ Dispatch("GET", <<"data", "query">>, None, lr, llat, resp, lat, resp)
    /\ LET q == [query EXCEPT !.fetches = @ + 1,
                              !.sent = Append(@, query.chunks[query.i])]
           body == last'.value
       IN  query' =
             IF last'.out = "raise" THEN Propagate(q, last'.err)
             ELSE IF "data" \notin DOMAIN body
             THEN Propagate(q, Err("KeyError", 0, "data"))
             ELSE LET q1 == [q EXCEPT !.data = @ \o body.data,
                                      !.pages = Append(@, body.data),
                                      !.i = @ + 1]
                  IN  IF q.i = Len(q.chunks)
                      THEN [q1 EXCEPT !.pc = "done", !.out = "return",
                                      !.value = q1.data]
                      ELSE q1

ChunkFetchOp(LR, LL, LAT) ==
    /\ query.pc = "fetching"
    /\ \E lr \in LR, llat \in LL, lat \in LAT :
          \E resp \in ChunkResponses(query.fetches + 1) :
              ChunkFetch(lr, llat, resp, lat)

(* --------------------------- specifications --------------------------- *)
\* BaseAPI.__init__ with a base url of B
InitWith(B) ==
    /\ api_base_url \in {rstrip(b) : b \in B}
    /\ email \in {None, "e"}
    /\ password \in {None, "p"}
    /\ api_key \in {None, "K"}
    /\ asynchronous \in BOOLEAN
    /\ now = T0
    /\ session_key = None
    /\ session_expiration = InitialExpiry(now)
    /\ session = None
    /\ headers = NoHeader
    /\ counter = 0
    /\ requests = <<>>
    /\ trace = <<>>
    /\ acquired = <<>>
    /\ log = <<>>
    /\ pc = "idle"
    /\ batch = NoBatch
    /\ futures = <<>>
    /\ result = <<>>
    /\ query = NoQuery
    /\ ops = 0
    /\ ticks = 0
    /\ last = [op |-> "__init__", url |-> <<>>, out |-> "return", err |-> NoErr,
               value |-> NoValue, pre |-> Snapshot]

Init == InitWith(BaseUrls)

\* the session and its token: every answer of the token endpoint, two
\* answers of the other endpoints
OkResponse == [status |-> 200, body |-> [data |-> "d"]]
Request ==
    /\ ops < MaxOps
    /\ RequestOp(Methods, Paths, {None}, LoginResponses, Latencies,
                 {OkResponse, NetErr}, Latencies)

Tick ==
    /\ ticks < MaxTicks
    /\ ops < MaxOps
    /\ TickOp(TickSteps)

Next == Tick \/ Request

Spec == Init /\ [][Next]_vars

\* the dispatcher: every operation and every answer of the endpoints, four
\* answers of the token endpoint
DLoginResponses ==
    { [status |-> 200, body |-> [token |-> "T1"]],
      [status |-> 401, body |-> Garbage],
      [status |-> 500, body |-> Garbage],
      NetErr }

DInit ==
    /\ Init
    /\ (email = None) = (password = None)
    /\ api_key = None \/ email = None

DRequest ==
    /\ ops < DispatchOps
    /\ RequestOp(Methods, Paths, {None}, DLoginResponses, Latencies,
                 Responses, Latencies)

DAsyncGet ==
    /\ ops < DispatchOps
    /\ \E b \in Batches : AsyncGetStart(b, None)

DAsyncIssue == AsyncIssueOp(DLoginResponses, Latencies)

\* what the endpoints answer to the requests of a batch
AResponses ==
    { [status |-> 200, body |-> [data |-> "d"]],
      [status |-> 200, body |-> Garbage],
      [status |-> 404, body |-> [message |-> "not found"]],
      [status |-> 500, body |-> Garbage],
      NetErr }

DServerRespond == ServerRespondOp(AResponses)

\* the token runs out while a batch is being issued
DTick ==
    /\ ticks < MaxTicks
    /\ pc = "issuing"
    /\ TickOp({SessionTTL})

DNext ==
    DTick \/ DRequest \/ DAsyncGet \/ DAsyncIssue \/ DServerRespond \/ AsyncResolve

SpecDispatch == DInit /\ [][DNext]_vars

\* a client that has an API key only
KeyOnlyConfig == api_key = "K" /\ email = None /\ password = None

\* the history: a long run of calls that are all answered, one second each
HInit ==
    /\ Init
    /\ KeyOnlyConfig

HRequest ==
    /\ ops < HistOps
    /\ ~asynchronous
    /\ RequestOp(Methods, Paths, {None}, {NetErr}, Latencies,
                 {OkResponse}, Latencies)

HAsyncGet ==
    /\ ops < HistOps
    /\ asynchronous
    /\ \E b \in {x \in Batches : Len(x) = 2} : AsyncGetStart(b, None)

HAsyncIssue == AsyncIssueOp({NetErr}, Latencies)

HServerRespond == ServerRespondOp({OkResponse})

HNext == HRequest \/ HAsyncGet \/ HAsyncIssue \/ HServerRespond \/ AsyncResolve

SpecHist == HInit /\ [][HNext]_vars

\* the paginated helpers of a synchronous client, with a key or with
\* credentials
PInit ==
    /\ Init
    /\ ~asynchronous
    /\ KeyOnlyConfig \/ (api_key = None /\ email = "e" /\ password = "p")

PLoginResponses ==
    { [status |-> 200, body |-> [token |-> "T1"]],
      [status |-> 401, body |-> Garbage] }

PStart ==
    /\ query.n < MaxQueries
    /\ \E limit \in Limits : PageStart(<<"event", "query">>, None, limit)

PFetch ==
    /\ query.pc = "fetching"
    /\ query.fetches < MaxFetches
    /\ PageFetchOp(PLoginResponses, Latencies, Latencies)

\* a plain get, post, put or delete before the first query
PRequest ==
    /\ ops < PlainOps
    /\ query.pc = "idle"
    /\ RequestOp(Methods, Paths, {None}, PLoginResponses, Latencies,
                 {OkResponse, [status |-> 500, body |-> Garbage], NetErr},
                 Latencies)

PNext == PRequest \/ PStart \/ PFetch

SpecPage == PInit /\ [][PNext]_vars

\* the helpers that hand an HDict to get
NCall ==
    /\ ops < PlainOps
    /\ \E pairs \in ParamInputs, lr \in PLoginResponses,
          resp \in {OkResponse, NetErr} :
            ParamCall(<<"animal", "by_id">>, pairs, lr, 1, resp, 1)

NLookup ==
    /\ ops < PlainOps
    /\ \E name \in Lookups, x \in Identifiers, lr \in PLoginResponses,
          resp \in {OkResponse, NetErr} :
            Lookup(name, x, lr, 1, resp, 1)

NNext == NCall \/ NLookup

SpecParams == PInit /\ [][NNext]_vars

\* url resolution: a key-only client, every base url, path and version
UInit == InitWith(UrlBases) /\ KeyOnlyConfig /\ ~asynchronous

UCall ==
    /\ ops < PlainOps
    /\ \E method \in Methods, path \in UrlPaths, v \in UrlVersions,
          resp \in {OkResponse, NetErr} :
            UrlCall(method, path, v, OkResponse, 1, resp, 1)

UNext == UCall

SpecUrl == UInit /\ [][UNext]_vars

\* the bulk writes of a LowLevelInternAPI client, which has an api key at
\* most and is synchronous
BInit == Init /\ email = None /\ password = None /\ ~asynchronous

BWrite ==
    /\ ops < PlainOps
    /\ \E op \in BulkWrites, container \in Containers, items \in BulkItems,
          resp \in {OkResponse, NetErr} :
            BulkWrite(op, container, items, OkResponse, 1, resp, 1)

BNext == BWrite

SpecBulk == BInit /\ [][BNext]_vars

\* the chunked sensor-data queries
CStart ==
    /\ query.n < MaxQueries
    /\ \E f \in RangeStarts, t \in RangeEnds : ChunkStart(f, t)

CFetch == ChunkFetchOp(PLoginResponses, Latencies, Latencies)

CNext == CStart \/ CFetch

SpecChunk == PInit /\ [][CNext]_vars

(* ------------------------------- claims ------------------------------- *)
\* positions of the events of one kind in the trace of the operation
Idx(kind) == {i \in 1..Len(trace) : trace[i].ev = kind}
Count(kind) == Cardinality(Idx(kind))
\* the "ensured" that closes the "ensure" at position i
Close(i) == CHOOSE j \in Idx("ensured") :
                j > i /\ \A k \in Idx("ensured") : k > i => j <= k
\* token requests sent by the session validation that starts at position i
LoginsIn(i) == Cardinality({k \in Idx("login_request") : i < k /\ k < Close(i)})

CredClient == email # None /\ password # None /\ api_key = None
KeyOnly == api_key # None /\ email = None /\ password = None

\* the validation e starts while a token acquired less than 23 hours ago is cached
Fresh(e) == e.acq # <<>> /\ e.at < e.acq[1] + 82800

\* C1: with email and password and no API key, a session validation sends
\* exactly one token request when no token was acquired yet or the token is 23
\* hours old or older, and none while the token is younger; the token acquired
\* last stays the session key.
C1_OneTokenRequestPerExpiry ==
    CredClient =>
        /\ \A i \in Idx("ensure") :
              LoginsIn(i) = IF Fresh(trace[i]) THEN 0 ELSE 1
        /\ acquired # <<>> => session_key = acquired[2]

\* C1 witness: a validation exactly 23 hours after the acquisition logs in again
C1_ReloginAtExpiry ==
    /\ CredClient
    /\ \E i \in Idx("ensure") :
          /\ trace[i].acq # <<>>
          /\ trace[i].at = trace[i].acq[1] + 82800
          /\ LoginsIn(i) = 1

\* C2: with only an API key every session validation succeeds and sends no
\* token request; afterwards the key is the session key and the bearer header,
\* and a validation that found the session expired has set the expiration 365
\* days ahead.
C2_ApiKeyNeverLogsIn ==
    KeyOnly =>
        /\ \A i \in Idx("ensured") : trace[i].ok
        /\ Idx("login_request") = {}
        /\ \A i \in Idx("ensure") :
              /\ session_key = api_key
              /\ headers = <<"Bearer", api_key>>
              /\ session_expiration =
                    IF last.pre.auth.session_expiration <= trace[i].at
                    THEN trace[i].at + 31536000
                    ELSE last.pre.auth.session_expiration

\* C2 witness: the key is installed again after its validity window ran out
C2_KeyReinstalledAfterExpiry ==
    /\ KeyOnly
    /\ last.pre.auth.session_key = "K"
    /\ last.out = "return"
    /\ \E i \in Idx("ensure") : last.pre.auth.session_expiration <= trace[i].at

\* C3: once a token request was answered 200 with token T, every endpoint
\* request carries Authorization: Bearer T, T being the token acquired last.
C3_RequestsCarryLastToken ==
    acquired # <<>> =>
        \A i \in Idx("request") : trace[i].auth = <<"Bearer", acquired[2]>>

\* C3 witness: a request sent after T2 replaced T1
C3_SecondTokenInUse ==
    /\ acquired # <<>> /\ acquired[2] = "T2"
    /\ last.pre.acquired # <<>> /\ last.pre.acquired[2] = "T1"
    /\ Idx("request") # {}

\* C4: a token response 401, 409 or 422 fails the operation with "invalid
\* login credentials", every other error status with the HTTP error of that
\* status; either way the operation sent one token request and no more.
C4_LoginErrorStatuses ==
    \A i \in Idx("login_response") :
        LET st == trace[i].status
        IN  /\ st \in {401, 409, 422} =>
                  /\ last.out = "raise"
                  /\ last.err = Err("ValueError", st, "invalid login credentials")
                  /\ Count("login_request") = 1
                  /\ Idx("request") = {}
            /\ st >= 400 /\ st \notin {401, 409, 422} =>
                  /\ last.out = "raise"
                  /\ last.err.type = "HTTPError" /\ last.err.status = st
                  /\ Count("login_request") = 1
                  /\ Idx("request") = {}

\* C4 witness: a token request answered 409
C4_Login409 ==
    \E i \in Idx("login_response") :
        trace[i].status = 409 /\ last.err.type = "ValueError"

\* C5: without an API key and without email or password, a validation of the
\* expired session fails with the configuration error and the operation sends
\* no HTTP request at all.
C5_MissingCredentials ==
    (api_key = None /\ (email = None \/ password = None)) =>
        \A i \in Idx("ensure") :
            last.pre.auth.session_expiration <= trace[i].at =>
                /\ ~trace[Close(i)].ok
                /\ last.out = "raise"
                /\ last.err = Err("ValueError", 0,
                                  "email and password are needed for API access")
                /\ Idx("login_request") = {}
                /\ Idx("request") = {}
                /\ Idx("follow") = {}

\* C5 witness: a get of a client that has an email and no password
C5_EmailWithoutPassword ==
    /\ api_key = None /\ email = "e" /\ password = None
    /\ last.op = "GET" /\ last.out = "raise"
    /\ Idx("ensure") # {}

\* C6: an endpoint request is sent right after a session validation of the
\* same operation succeeded, and after a failed validation the operation
\* raises that failure and sends nothing more.
C6_RequestOnlyAfterValidation ==
    /\ \A i \in Idx("request") :
          i > 1 /\ trace[i - 1].ev = "ensured" /\ trace[i - 1].ok
    /\ \A i \in Idx("ensured") :
          ~trace[i].ok =>
              /\ \A k \in Idx("request") \cup Idx("follow") : k < i
              /\ pc = "idle"
              /\ last.out = "raise"
              /\ last.err = trace[i].err

\* C6 witness: async_get sent its first request, then the login for the
\* second path was refused
C6_SecondValidationFails ==
    \E i \in Idx("ensured") :
        /\ ~trace[i].ok
        /\ trace[i].err.msg = "invalid login credentials"
        /\ Idx("request") # {}

\* the answer to request k of the operation
AnswerOf(k) == trace[CHOOSE i \in Idx("answer") : trace[i].k = k]
\* the client took the result of a request that was answered with a response
TookResponse(e) == e.ev = "result" /\ AnswerOf(e.k).status # 0
Got == SelectSeq(trace, TookResponse)
NewRecords == SubSeq(requests, Len(last.pre.requests) + 1, Len(requests))

\* C7 as stated: when an operation is over, the history has grown by one
\* record for each endpoint request it sent, whatever became of the request.
C7_OneRecordPerRequest ==
    pc = "idle" => Len(requests) = Len(last.pre.requests) + Count("request")

\* C7 amended: the history and the counter grow by exactly one record for each
\* request whose response the operation took, in that order and with the url
\* and status of that response; a request whose transport failed, or whose
\* result was never taken, adds nothing.
C7_OneRecordPerResponse ==
    /\ Len(requests) = Len(last.pre.requests) + Len(Got)
    /\ counter = last.pre.counter + Len(Got)
    /\ SubSeq(requests, 1, Len(last.pre.requests)) = last.pre.requests
    /\ \A n \in 1..Len(Got) :
          /\ NewRecords[n].url = AnswerOf(Got[n].k).url
          /\ NewRecords[n].status = AnswerOf(Got[n].k).status

\* C7 witness: a batch with one request answered and one failed in transport
C7_OneAnsweredOneFailed ==
    /\ Count("result") = 2
    /\ Len(Got) = 1
    /\ pc = "idle"

\* C8: the history never holds more than 100 records.
C8_HistoryAtMost100 == Len(requests) <= 100

\* C8 witness: more than 100 requests were tracked
C8_HistoryFull == counter > 100 /\ Len(requests) = 100

\* C9: after n tracked requests the history is the last min(n, 100) of them in
\* the order tracked; after 150, records 51..150.
C9_HistoryIsNewestInOrder ==
    LET n == Len(log)
        m == IF n < 100 THEN n ELSE 100
    IN  /\ requests = SubSeq(log, n - m + 1, n)
        /\ n = 150 => requests = SubSeq(log, 51, 150)

\* C9 witness: 150 requests tracked, the 51st is the oldest one kept
C9_After150 ==
    /\ Len(log) = 150
    /\ requests[1] = log[51]
    /\ log[50] # log[51]

\* C10: a post or put answered 301 raises the HTTP error, is not followed, and
\* has sent the one endpoint request only.
C10_WriteRedirectIsError ==
    last.op \in {"POST", "PUT"} =>
        \A i \in Idx("answer") \cup Idx("redirected") :
            trace[i].status = 301 =>
                /\ last.out = "raise"
                /\ last.err = Err("HTTPError", 301, "301 redirect")
                /\ Idx("follow") = {}
                /\ Count("request") = 1

\* C10 witness: a put answered 301
C10_Put301 ==
    /\ last.op = "PUT" /\ last.out = "raise"
    /\ \E i \in Idx("answer") : trace[i].status = 301

\* C11: a get, post, put or delete answered with a status s in [400, 500)
\* raises the client error with s and the message field of the body, and with
\* "unknown" when the body has no such field or is no JSON at all.
C11_ClientErrorCarriesMessage ==
    last.op \in Methods =>
        \A i \in Idx("answer") :
            LET a == trace[i]
            IN  (400 <= a.status /\ a.status < 500) =>
                    /\ last.out = "raise"
                    /\ last.err.type = "HTTPError"
                    /\ last.err.status = a.status
                    /\ last.err.msg = IF "message" \in DOMAIN a.body
                                      THEN a.body.message ELSE "unknown"

\* C11 witness: a delete answered 404 with a body that is no JSON
C11_UnparseableErrorBody ==
    /\ last.op = "DELETE"
    /\ last.err = Err("HTTPError", 404, "unknown")
    /\ \E i \in Idx("answer") : trace[i].body = Garbage

\* C12 as stated: get, post, put and delete return a body only for a 2xx
\* status, and any answered status outside 2xx and [400, 500) raises the HTTP
\* error.
C12_BodyOnlyFor2xx ==
    last.op \in Methods =>
        \A i \in Idx("answer") :
            LET st == trace[i].status
            IN  /\ last.out = "return" => (200 <= st /\ st < 300)
                /\ (st # 0 /\ ~(200 <= st /\ st < 300) /\ ~(400 <= st /\ st < 500)) =>
                       last.out = "raise" /\ last.err.type = "HTTPError"

\* C13: async_get on a client that is not asynchronous raises
\* NotImplementedError and does nothing else: no event of any kind, the
\* session state, the counter and the history as before.
C13_AsyncGetNeedsAsyncClient ==
    (last.op = "async_get" /\ ~asynchronous) =>
        /\ last.out = "raise"
        /\ last.err.type = "NotImplementedError"
        /\ pc = "idle"
        /\ trace = <<>>
        /\ futures = <<>>
        /\ Auth = last.pre.auth
        /\ counter = last.pre.counter
        /\ requests = last.pre.requests

\* C13 witness: async_get refused on a synchronous client that has no session
C13_RefusedOnSyncClient ==
    /\ last.op = "async_get" /\ ~asynchronous
    /\ last.out = "raise"
    /\ session = None

IsRequest(e) == e.ev = "request"
IsResult(e) == e.ev = "result"
\* a response async_get turns into an entry of its result
Succeeded(a) == 200 <= a.status /\ a.status < 300 /\ "raw" \notin DOMAIN a.body
\* the answers to the futures the batch has taken so far, in submission order
AnswersTaken == [k \in 1..Count("result") |-> AnswerOf(k)]
Entry(a) == <<a.body, a.url>>
EntriesOf(as) == [n \in 1..Len(as) |-> Entry(as[n])]

\* C14: async_get sends the requests for its paths in the given order and all
\* of them before it takes the first result, and takes the results in
\* submission order whatever order the answers arrive in; the entries returned
\* and the records appended follow that order.
C14_SubmissionOrder ==
    (last.op = "async_get" /\ asynchronous) =>
        LET reqs == SelectSeq(trace, IsRequest)
            res == SelectSeq(trace, IsResult)
            got == SelectSeq(AnswersTaken, Succeeded)
        IN  /\ \A i \in Idx("request"), j \in Idx("result") : i < j
            /\ Idx("result") # {} => Len(reqs) = Len(batch.paths)
            /\ \A n \in 1..Len(reqs) :
                  reqs[n].url = to_url(batch.paths[n], batch.version)
            /\ \A n \in 1..Len(res) : res[n].k = n
            /\ Len(result) = Len(got)
            /\ \A n \in 1..Len(got) : result[n][2] = got[n].url
            /\ \A n \in 1..Len(NewRecords) :
                  /\ NewRecords[n].url = AnswerOf(Got[n].k).url
                  /\ n > 1 => Got[n - 1].k < Got[n].k

\* C14 witness: the second answer arrived first and both entries were returned
C14_AnswersOutOfOrder ==
    /\ last.op = "async_get" /\ pc = "idle"
    /\ Len(result) = 2
    /\ \E i, j \in Idx("answer") : i < j /\ trace[i].k = 2 /\ trace[j].k = 1

\* C15: once async_get has sent all its requests, no failed request ends the
\* call: it returns, every future was taken, and the list returned is the
\* (body, url) pairs of the requests answered 2xx with a JSON body, in
\* submission order.
C15_PartialFailure ==
    (last.op = "async_get" /\ asynchronous /\ batch.paths # <<>>
        /\ Len(futures) = Len(batch.paths)) =>
        /\ last.out \in {"running", "return"}
        /\ result = EntriesOf(SelectSeq(AnswersTaken, Succeeded))
        /\ pc = "idle" =>
              /\ last.out = "return"
              /\ last.value = [list |-> result]
              /\ Count("result") = Len(batch.paths)

\* C15 witness: the first request failed in transport, the second succeeded
C15_FirstFailedSecondReturned ==
    /\ last.op = "async_get" /\ pc = "idle" /\ last.out = "return"
    /\ Len(batch.paths) = 2
    /\ AnswerOf(1).status = 0
    /\ Len(result) = 1 /\ result[1][2] = to_url(batch.paths[2], batch.version)

\* C16 as stated: when an operation of an asynchronous client is over, the
\* result of every request it sent has been taken.
C16_NothingOutstanding ==
    (asynchronous /\ pc = "idle") =>
        /\ Count("result") = Count("request")
        /\ \A k \in 1..Len(futures) : futures[k].resolved

Paged == query.pc # "idle" /\ query.kind = "paged"
RECURSIVE Concat(_)
Concat(ss) == IF ss = <<>> THEN <<>> ELSE Head(ss) \o Concat(Tail(ss))
\* the lengths of the pages the query has received
Sizes == [i \in 1..Len(query.pages) |-> Len(query.pages[i])]

\* C17: a paginated query goes on past a page only when the page holds at
\* least limit records, and returns at the first page that holds fewer: then
\* it has made one GET per page and returns the pages concatenated in order.
\* Pages of 100, 100, 37 give 3 fetches and 237 records; after pages of 100,
\* 100, 100 a 4th fetch is made, and an empty 4th page ends the query.
C17_StopsAtFirstShortPage ==
    Paged =>
        LET P == query.pages
            k == Len(P)
        IN  /\ \A i \in 1..(k - 1) : Len(P[i]) >= query.limit
            /\ query.out = "running" => \A i \in 1..k : Len(P[i]) >= query.limit
            /\ query.out = "return" =>
                  /\ k >= 1 /\ Len(P[k]) < query.limit
                  /\ query.fetches = k
                  /\ query.value = Concat(P)
            /\ (k >= 1 /\ Len(P[k]) < query.limit) => query.out = "return"
            /\ (query.limit = 100 /\ Sizes = <<100, 100, 37>>) =>
                  query.fetches = 3 /\ Len(query.value) = 237
            /\ (query.limit = 100 /\ Sizes = <<100, 100, 100>>) =>
                  query.out # "return"
            /\ (query.limit = 100 /\ Sizes = <<100, 100, 100, 0>>) =>
                  query.fetches = 4 /\ Len(query.value) = 300

\* C17 witness: three full pages and an empty fourth one
C17_FourthFetchEmpty ==
    /\ Paged /\ query.limit = 100
    /\ Sizes = <<100, 100, 100, 0>>
    /\ query.out = "return"

PosOf(ps, k) == CHOOSE i \in 1..Len(ps) : ps[i][1] = k
Entries(ps) == {ps[i] : i \in 1..Len(ps)}

\* C19: the params a helper transmits are exactly the entries it was given
\* whose value is not None, in the order given; 0, False and [] stay.
\* {a: 1, b: None, c: 0} goes out as {a: 1, c: 0}.
C19_NoneDropped ==
    (query.pc = "done" /\ query.kind = "params" /\ query.params # <<>>) =>
        LET given == query.given
            sent == query.params[1]
        IN  /\ Entries(sent) = {e \in Entries(given) : e[2] # None}
            /\ \A i, j \in 1..Len(sent) :
                  i < j => PosOf(given, sent[i][1]) < PosOf(given, sent[j][1])
            /\ given = <<<<"a", "1">>, <<"b", None>>, <<"c", "0">>>> =>
                  sent = <<<<"a", "1">>, <<"c", "0">>>>

\* C19 witness: {a: 1, b: None, c: 0} was sent as {a: 1, c: 0}
C19_Example ==
    /\ query.pc = "done" /\ query.kind = "params"
    /\ query.given = <<<<"a", "1">>, <<"b", None>>, <<"c", "0">>>>
    /\ query.params = << <<<<"a", "1">>, <<"c", "0">>>> >>

Chunked == query.pc # "idle" /\ query.kind = "chunked"

\* C20: the sub-ranges of [start, end] begin at start, end at end, each begins
\* where the one before ended and none is longer than 100; [0, 250] gives
\* (0,100), (100,200), (200,250); the chunked query makes one GET per
\* sub-range in that order and returns the data concatenated.
C20_ChunkedQuery ==
    Chunked =>
        LET ch == query.chunks
            k == Len(ch)
        IN  /\ query.from_date < query.to_date =>
                  /\ k >= 1
                  /\ ch[1][1] = query.from_date
                  /\ ch[k][2] = query.to_date
            /\ \A i \in 1..k : ch[i][1] < ch[i][2] /\ ch[i][2] - ch[i][1] <= 100
            /\ \A i \in 1..(k - 1) : ch[i][2] = ch[i + 1][1]
            /\ (query.from_date = 0 /\ query.to_date = 250) =>
                  ch = <<<<0, 100>>, <<100, 200>>, <<200, 250>>>>
            /\ \A i \in 1..Len(query.sent) : query.sent[i] = ch[i]
            /\ query.out = "return" =>
                  /\ query.fetches = k
                  /\ query.sent = ch
                  /\ query.value = Concat(query.pages)

\* C20 witness: [0, 250] fetched in three sub-ranges
C20_ThreeChunks ==
    /\ Chunked /\ query.out = "return"
    /\ query.sent = <<<<0, 100>>, <<100, 200>>, <<200, 250>>>>
    /\ Len(query.value) > 0

\* C21: a lookup makes, as its first dispatcher call, a GET on its own path
\* with the identifier under its own parameter name: get_status on
\* /service/status, get_animal_by_id(x) on /animal/by_id with animal_id = x;
\* the request sent goes to the base url followed by that path.
C21_LookupCall ==
    (query.pc = "done" /\ query.kind = "lookup") =>
        LET c == query.calls[1]
        IN  /\ c.method = "GET"
            /\ query.name = "get_status" =>
                  c.path = <<"service", "status">> /\ c.params = <<>>
            /\ (query.name = "get_animal_by_id" /\ query.arg # None) =>
                  /\ c.path = <<"animal", "by_id">>
                  /\ c.params = << <<"animal_id", query.arg>> >>
            /\ (query.name = "get_device_by_id" /\ query.arg # None) =>
                  /\ c.path = <<"device", "by_id">>
                  /\ c.params = << <<"device_id", query.arg>> >>
            /\ (query.name = "get_organisation_by_id" /\ query.arg # None) =>
                  /\ c.path = <<"organisation", "by_id">>
                  /\ c.params = << <<"organisation_id", query.arg>> >>
            /\ \A i \in Idx("request") :
                  trace[i].method = "GET" /\ trace[i].url = api_base_url \o c.path

\* C21 witness: get_animal_by_id("abcd") has sent its request
C21_AnimalById ==
    /\ query.pc = "done" /\ query.kind = "lookup"
    /\ query.name = "get_animal_by_id" /\ query.arg = "abcd"
    /\ query.calls[1].params = << <<"animal_id", "abcd">> >>
    /\ Idx("request") # {}

\* C22: the first fetch of a paginated query carries the offset the query
\* began with, every later fetch the next_offset of the response just before
\* it, and all fetches the same path, version and limit.
C22_OffsetsFollowServer ==
    Paged =>
        LET S == query.sent
        IN  /\ Len(S) >= 1 => S[1].offset = query.given.offset
            /\ \A i \in 2..Len(S) :
                  S[i].offset = query.bodies[i - 1].pagination.next_offset
            /\ \A i \in 1..Len(S) :
                  /\ S[i].limit = query.given.limit
                  /\ S[i].path = query.path
                  /\ S[i].version = query.version

\* C22 witness: a third fetch sent with the cursor the second page named
C22_ThirdFetchUsesCursor ==
    /\ Paged /\ Len(query.sent) >= 3
    /\ query.sent[1].offset = 5
    /\ query.sent[3].offset = 2000

\* C23 as stated: however the limit was chosen, a paginated query that has
\* received an empty page is over.
C23_EmptyPageEndsQuery ==
    Paged =>
        ((\E i \in 1..Len(query.pages) : query.pages[i] = <<>>) =>
            query.pc = "done")

\* C24: a get, post, put or delete that starts before the expiration leaves
\* the session key, the expiration, the Authorization header and the handle
\* as they were; an answered request adds one to the counter.
C24_UnexpiredSessionUntouched ==
    (last.op \in Methods /\ last.pre.now < last.pre.auth.session_expiration) =>
        /\ Auth = last.pre.auth
        /\ acquired = last.pre.acquired
        /\ Idx("login_request") = {}
        /\ counter \in {last.pre.counter, last.pre.counter + 1}

\* C24 witness: a second request under the token T1
C24_SecondRequestSameToken ==
    /\ last.op \in Methods
    /\ last.pre.now < last.pre.auth.session_expiration
    /\ last.pre.auth.session_key = "T1"
    /\ counter = last.pre.counter + 1

\* C25: a new client has no handle and an expired session; the first
\* operation creates the handle, a Session or a FuturesSession as the mode
\* says, and no later operation creates another, a re-login included.
C25_HandleCreatedOnce ==
    /\ last.op = "__init__" =>
          session = None /\ session_expiration < now /\ ops = 0
    /\ ops > 0 => session = IF asynchronous THEN "FuturesSession" ELSE "Session"
    /\ \A i \in Idx("session_created") :
          last.pre.auth.session = None /\ trace[i].kind = session
    /\ Count("session_created") <= 1
    /\ last.pre.auth.session # None =>
          session = last.pre.auth.session /\ Idx("session_created") = {}

\* C25 witness: a re-login after expiry on the handle of the first request
C25_ReloginKeepsHandle ==
    /\ last.pre.auth.session = "Session"
    /\ last.pre.auth.session_key = "T1"
    /\ session_key = "T2"
    /\ session = "Session"

\* C28: a session validation that fails leaves the session key, the
\* expiration and the Authorization header as they were and the session
\* expired, and the next operation validates again: with one token request,
\* or, without credentials, with the configuration error.
C28_FailedLoginChangesNothing ==
    /\ \A i \in Idx("ensured") :
          ~trace[i].ok =>
              /\ session_key = last.pre.auth.session_key
              /\ session_expiration = last.pre.auth.session_expiration
              /\ headers = last.pre.auth.headers
              /\ session_expiration <= now
    /\ (last.op \in Methods /\ last.pre.login_failed) =>
          IF email = None \/ password = None
          THEN \E i \in Idx("ensured") : trace[i].err.type = "ValueError"
          ELSE Count("login_request") = 1

\* C28 witness: the re-login after the expiry of T1 is refused and T1 stays
C28_RefusedReloginKeepsToken ==
    /\ last.pre.auth.session_key = "T1"
    /\ session_key = "T1" /\ headers = <<"Bearer", "T1">>
    /\ \E i \in Idx("ensured") : ~trace[i].ok /\ trace[i].err.status = 401

\* the url of the token request
TokenUrl == api_base_url \o <<"user", "get_token">>

\* C29: no record of the history is one of a token request, and an operation
\* adds to the counter and to the records ever appended exactly the endpoint
\* requests that were answered, whether it logged in or not and whether the
\* login failed or not.
C29_LoginNotTracked ==
    /\ \A i \in 1..Len(requests) : requests[i].url # TokenUrl
    /\ counter = last.pre.counter
                 + Cardinality({i \in Idx("answer") : trace[i].status # 0})
    /\ Len(log) = counter
    /\ Idx("request") = {} => requests = last.pre.requests

\* C29 witness: an operation that logged in and was answered counts once
C29_LoginAndAnswer ==
    /\ Count("login_request") = 1
    /\ Count("answer") = 1
    /\ last.pre.counter = 0 /\ counter = 1 /\ Len(requests) = 1

\* C27: the request counter is the number of records ever appended, is never
\* below its value at the start of the operation, and the history holds
\* min(counter, 100) records.
C27_CounterAndHistoryLength ==
    /\ counter = Len(log)
    /\ counter >= last.pre.counter
    /\ Len(requests) = IF counter < 100 THEN counter ELSE 100

\* C27 witness: the 101st record was appended by the last operation
C27_HundredAndFirst ==
    /\ last.pre.counter = 100
    /\ counter = 101
    /\ Len(last.pre.requests) = 100
    /\ Len(requests) = 100

\* the base url b with its trailing slashes removed is u
Stripped(b, u) ==
    \E k \in 0..Len(b) :
        /\ u = SubSeq(b, 1, k)
        /\ k = 0 \/ b[k] # ""
        /\ \A j \in (k + 1)..Len(b) : b[j] = ""

\* piece i of url is a version segment between two slashes
Segment(url, i) == 1 < i /\ i < Len(url) /\ url[i] \in VersionSegs

\* piece i of url is a /vN/ the substitution replaces: a segment whose
\* leading slash no replaced segment right before it has used
Replaced(url, i) ==
    /\ Segment(url, i)
    /\ \E k \in 1..i :
          /\ \A j \in k..i : Segment(url, j)
          /\ k = 1 \/ ~Segment(url, k - 1)
          /\ (i - k) % 2 = 0

\* C26: the url requested is the base url without its trailing slashes
\* followed by the path; with no version it is that, with a version v every
\* /vN/ of it has become /v/ and every other piece is as it was.
C26_UrlResolution ==
    /\ \E b \in UrlBases : Stripped(b, api_base_url)
    /\ \A i \in Idx("request") :
          LET plain == api_base_url \o query.path
              url == trace[i].url
          IN  /\ Len(url) = Len(plain)
              /\ query.version = None => url = plain
              /\ query.version # None =>
                    \A j \in 1..Len(plain) :
                        url[j] = IF Replaced(plain, j) THEN query.version
                                 ELSE plain[j]

\* C26 witness: https://h/api/v1/ and /service/status with version v2 were
\* resolved to https://h/api/v2/service/status
C26_V1ToV2 ==
    /\ query.pc = "done"
    /\ query.path = <<"service", "status">>
    /\ query.version = "v2"
    /\ api_base_url = <<"https:", "", "h", "api", "v1">>
    /\ \E i \in Idx("request") :
          trace[i].url = <<"https:", "", "h", "api", "v2", "service", "status">>

\* the last operation was a bulk write
Bulk == query.pc = "done" /\ query.kind = "bulk"

\* some point of some series has a timestamp or a value that is no number
HasInvalidPoint(items) ==
    \E i \in 1..Len(items) : \E j \in 1..Len(items[i].data) :
        \/ items[i].data[j].ts \notin {"int", "float"}
        \/ items[i].data[j].value \notin {"int", "float"}

\* C30 as stated: a bulk write given a point with a non-numeric timestamp or
\* value raises the validation error, sends nothing, creates no session and
\* leaves the history as it was.
C30_InvalidPointSendsNothing ==
    (Bulk /\ HasInvalidPoint(query.items)) =>
        /\ last.out = "raise"
        /\ last.err.type = "ValueError"
        /\ last.err.msg \in {"Invalid TS Point", "Invalid VALUE Point"}
        /\ trace = <<>>
        /\ session = last.pre.auth.session
        /\ requests = last.pre.requests
        /\ counter = last.pre.counter

====
